---- MODULE Spec2Model ----
(***************************************************************************)
(* Interactive transform engine of the Scene component (src/src/App.js).   *)
(*                                                                         *)
(* The React state of Scene (objects, activeObjectId, isGrabbing,          *)
(* transformMode, activeAxes), the initialTransform ref and the window     *)
(* listeners are the variables.  Every handler is one action.  State       *)
(* updates are applied in the order they are queued, so the state          *)
(* variables hold the state with every queued update applied.  What a      *)
(* handler reads is the state its closure captured at the last render.     *)
(* A key press, a click and a pointer release are followed by the          *)
(* re-render they cause before the next event is handled, so the closures  *)
(* of the next handler see the new state.  Pointer-motion events can be    *)
(* delivered faster than the component re-renders, so the `objects` that   *)
(* the attached handlers close over (viewObjects) lags behind the state    *)
(* after a pointer-motion event until the next re-render.                  *)
(*                                                                         *)
(* The camera is the mutable three.js object of useThree: handleMouseMove   *)
(* reads its position when the event is handled.  Under Spec it stays      *)
(* where Canvas puts it; SpecOrbit adds the OrbitControls moving it.        *)
(*                                                                         *)
(* Units.  position, rotation and scale components are integers in        *)
(* hundredths (1.00 is 100); the motion events of Motions keep every       *)
(* product a whole number of hundredths.                                   *)
(***************************************************************************)
EXTENDS Integers, Sequences, FiniteSets, TLC

VARIABLES
  objects,          \* useState, App.js:63      sequence of object records
  activeObjectId,   \* useState, App.js:108     NULL or an id
  isGrabbing,       \* useState, App.js:109
  transformMode,    \* useState, App.js:110     "null" or a mode
  activeAxes,       \* useState, App.js:111     sequence of axis names
  initialTransform, \* useRef,   App.js:113     pose captured by startTransform
  viewObjects,      \* the `objects` the attached handlers close over
  moveListener,     \* is a "mousemove" listener attached to window
  upListeners,      \* number of "mouseup" listeners attached to window
  edits,            \* pointer-motion events and duplications so far
  camera,           \* camera.position, App.js:106, 453
  gestureStart      \* history: the selection and its live pose at the last gesture start

vars == <<objects, activeObjectId, isGrabbing, transformMode, activeAxes,
          initialTransform, viewObjects, moveListener, upListeners, edits,
          camera, gestureStart>>

engine == <<activeObjectId, isGrabbing, transformMode, activeAxes, initialTransform>>

----------------------------------------------------------------------------
(* Bounds of the model *)

MaxEdits == 2          \* pointer-motion events plus duplications in one behaviour
MaxUpListeners == 2    \* upListeners saturates here ("this many or more")

(* Program constants *)

CameraZ == 5           \* camera.position.z, App.js:453
RefDistance == 5       \* the divisor of movementScale, App.js:174

\* target of OrbitControls, App.js:443
OrbitTarget == <<0, 0, 0>>

NULL == -1             \* JavaScript null (ids are positive integers)

Vec3(x, y, z) == <<x, y, z>>

\* (mutant of Falsy: null is not recognised)
FalsyZeroOnly(v) == v = 0

Falsy(v) == v = NULL \/ v = 0      \* !v for a number-or-null v

----------------------------------------------------------------------------
(* Array helpers, as the JavaScript built-ins compute them *)

Includes(arr, v) == \E i \in 1..Len(arr) : arr[i] = v

\* the elements of an array, the arguments an updater callback can receive
Elements(arr) == {arr[i] : i \in 1..Len(arr)}

\* Array.prototype.find: the first matching element, NULL (undefined) if none
Find(arr, id) ==
  IF \E i \in 1..Len(arr) : arr[i].id = id
  THEN arr[CHOOSE i \in 1..Len(arr) :
             arr[i].id = id /\ \A j \in 1..(i - 1) : arr[j].id # id]
  ELSE NULL

Ids(arr) == {arr[i].id : i \in 1..Len(arr)}

MathMax(S) == CHOOSE m \in S : \A n \in S : n <= m

----------------------------------------------------------------------------
(* Initial scene, App.js:63-104 *)

Obj(id, pos, color, geometry) ==
  [id |-> id, position |-> pos, scale |-> Vec3(100, 100, 100),
   rotation |-> Vec3(0, 0, 0), color |-> color, geometry |-> geometry]

InitialObjects ==
  << Obj(1, Vec3(0, 0, 0),    "blue",       "box"),
     Obj(2, Vec3(300, 0, 0),  "lightblue",  "sphere"),
     Obj(3, Vec3(-300, 0, 0), "grey",       "cylinder"),
     Obj(4, Vec3(200, 200, 0),"lightgreen", "box"),
     Obj(5, Vec3(-100, 200, 0),"lightblue", "cylinder") >>

InitialTransformRef ==
  [position |-> Vec3(0, 0, 0), rotation |-> Vec3(0, 0, 0), scale |-> Vec3(0, 0, 0)]

\* camera={{ position: [0, 0, 5] }}, App.js:453
InitialCamera == <<0, 0, CameraZ>>

Init ==
  /\ objects = InitialObjects
  /\ activeObjectId = NULL
  /\ isGrabbing = FALSE
  /\ transformMode = "null"
  /\ activeAxes = <<>>
  /\ initialTransform = InitialTransformRef
  /\ viewObjects = InitialObjects
  /\ moveListener = FALSE
  /\ upListeners = 0
  /\ edits = 0
  /\ camera = InitialCamera
  /\ gestureStart = [id |-> NULL, pose |-> InitialTransformRef]

----------------------------------------------------------------------------
(* Input events *)

Keys == {"Delete", "d", "D", "g", "G", "r", "R", "s", "S",
         "x", "X", "y", "Y", "z", "Z", "Escape", "Enter", "a"}

\* String.prototype.toLowerCase on the keys above
ToLowerCase(k) ==
  CASE k = "Delete" -> "delete"
    [] k = "Escape" -> "escape"
    [] k = "Enter"  -> "enter"
    [] k = "D" -> "d"
    [] k = "G" -> "g"
    [] k = "R" -> "r"
    [] k = "S" -> "s"
    [] k = "X" -> "x"
    [] k = "Y" -> "y"
    [] k = "Z" -> "z"
    [] OTHER -> k

KeyEvent(k, shift, ctrl) == [key |-> k, shiftKey |-> shift, ctrlKey |-> ctrl]

\* The key events explored: the keys without modifier (lower case for the
\* axis letters and d, both cases for the mode letters), the axis letters
\* with shift (upper case) and d / D with ctrl.
KeyEvents ==
  {KeyEvent(k, FALSE, FALSE) : k \in Keys \ {"D", "X", "Y", "Z"}}
    \cup {KeyEvent(k, TRUE, FALSE) : k \in {"X", "Y", "Z"}}
    \cup {KeyEvent(k, FALSE, TRUE) : k \in {"d", "D"}}

\* movementX, movementY of the pointer-motion events explored: right and up,
\* so that dx = 100, dy = 200 and dx + dy = 300 are told apart
Motions == { [movementX |-> 100, movementY |-> -200] }

\* the objects the pointer clicks: the first one of the scene and every duplicate
ClickIds == {1} \cup {id \in Ids(objects) : id > Len(InitialObjects)}

----------------------------------------------------------------------------
(* Re-render after a state update.  Every state variable of Scene is a     *)
(* dependency of handleMouseMove, so each re-render re-creates it and      *)
(* re-runs the pointer listener effect (App.js:407-417): the cleanup       *)
(* removes the mousemove listener; its removeEventListener("mouseup", ..) *)
(* names a new function and removes nothing; then, when grabbing, a        *)
(* mousemove and one more mouseup listener are added.                      *)

SatInc(n) == IF n < MaxUpListeners THEN n + 1 ELSE n

PointerListenerEffect(grabbing) ==
  /\ moveListener' = grabbing
  /\ upListeners' = IF grabbing THEN SatInc(upListeners) ELSE upListeners

Rerender(grabbing) ==
  /\ viewObjects' = objects'
  /\ PointerListenerEffect(grabbing)

NoRerender == UNCHANGED <<viewObjects, moveListener, upListeners>>

\* a handler that returns without queuing an update
Ignored == UNCHANGED <<objects, engine, edits, gestureStart>> /\ NoRerender

----------------------------------------------------------------------------
(* updateObject, App.js:124-128 *)

\* updateFn is the callback as a function on the elements of prev
updateObject(prev, id, updateFn) ==
  [i \in 1..Len(prev) |-> IF prev[i].id = id THEN updateFn[prev[i]] ELSE prev[i]]

(* handleDuplicateObject, App.js:131-156 *)

\* (mutant of getNextId: the next id is taken from the length)
getNextIdFromLength(objs) == Len(objs) + 1

getNextId(objs) == IF Len(objs) > 0 THEN MathMax(Ids(objs)) + 1 ELSE 1

DuplicateOf(src, objs) ==
  [src EXCEPT !.id = getNextId(objs),
              !.position = Vec3(src.position[1] + 100, src.position[2], src.position[3])]

handleDuplicateObject ==
  IF activeObjectId # NULL /\ (\E i \in 1..Len(viewObjects) : viewObjects[i].id = activeObjectId)
  THEN LET newObject == DuplicateOf(Find(viewObjects, activeObjectId), viewObjects)
       IN  /\ edits < MaxEdits
           /\ edits' = edits + 1
           /\ objects' = Append(objects, newObject)
           /\ activeObjectId' = newObject.id
           /\ UNCHANGED <<isGrabbing, transformMode, activeAxes, initialTransform,
                           gestureStart>>
           /\ Rerender(isGrabbing)
  ELSE Ignored

(* handleDeleteObject, App.js:159-166 *)

\* (mutant of handleDeleteObject: the selection is not cleared)
handleDeleteObjectKeepsSelection ==
  IF activeObjectId # NULL
  THEN /\ objects' = SelectSeq(objects, LAMBDA obj : obj.id # activeObjectId)
       /\ UNCHANGED <<activeObjectId, isGrabbing, transformMode, activeAxes,
                       initialTransform, edits, gestureStart>>
       /\ Rerender(isGrabbing)
  ELSE Ignored

handleDeleteObject ==
  IF activeObjectId # NULL
  THEN /\ objects' = SelectSeq(objects, LAMBDA obj : obj.id # activeObjectId)
       /\ activeObjectId' = NULL
       /\ UNCHANGED <<isGrabbing, transformMode, activeAxes, initialTransform, edits,
                       gestureStart>>
       /\ Rerender(isGrabbing)
  ELSE Ignored

(* startTransform, App.js:267-284 *)

Snapshot(obj) ==
  [position |-> obj.position, rotation |-> obj.rotation, scale |-> obj.scale]

\* the pose of object id in the Pose Store (InitialTransformRef if it is absent)
PoseOf(objs, id) ==
  IF id \in Ids(objs) THEN Snapshot(Find(objs, id)) ELSE InitialTransformRef

\* (mutant of startTransform: the snapshot is not taken)
startTransformNoSnapshot(mode) ==
  /\ isGrabbing' = TRUE
  /\ transformMode' = mode
  /\ activeAxes' = <<>>
  /\ gestureStart' = [id |-> activeObjectId, pose |-> PoseOf(objects, activeObjectId)]
  /\ UNCHANGED <<objects, activeObjectId, edits, initialTransform>>
  /\ Rerender(TRUE)

startTransform(mode) ==
  /\ isGrabbing' = TRUE
  /\ transformMode' = mode
  /\ activeAxes' = <<>>
  /\ initialTransform' =
       IF \E i \in 1..Len(viewObjects) : viewObjects[i].id = activeObjectId
       THEN Snapshot(Find(viewObjects, activeObjectId))
       ELSE initialTransform
  /\ gestureStart' = [id |-> activeObjectId, pose |-> PoseOf(objects, activeObjectId)]
  /\ UNCHANGED <<objects, activeObjectId, edits>>
  /\ Rerender(TRUE)

(* endTransform, App.js:286-310 *)

Restore(obj, initial) ==
  [obj EXCEPT !.position = initial.position,
              !.rotation = initial.rotation,
              !.scale = initial.scale]

\* (mutant of endTransform: the axes are not cleared)
endTransformKeepsAxes(confirm) ==
  /\ objects' = IF ~confirm /\ ~Falsy(activeObjectId)
                THEN updateObject(objects, activeObjectId,
                       [obj \in Elements(objects) |-> Restore(obj, initialTransform)])
                ELSE objects
  /\ isGrabbing' = FALSE
  /\ transformMode' = "null"
  /\ UNCHANGED <<activeAxes, activeObjectId, initialTransform, edits, gestureStart>>
  /\ Rerender(FALSE)

\* (mutant of endTransform: isGrabbing is not reset)
endTransformKeepsGrabbing(confirm) ==
  /\ objects' = IF ~confirm /\ ~Falsy(activeObjectId)
                THEN updateObject(objects, activeObjectId,
                       [obj \in Elements(objects) |-> Restore(obj, initialTransform)])
                ELSE objects
  /\ isGrabbing' = isGrabbing
  /\ transformMode' = "null"
  /\ activeAxes' = <<>>
  /\ UNCHANGED <<activeObjectId, initialTransform, edits, gestureStart>>
  /\ Rerender(isGrabbing)

endTransform(confirm) ==
  /\ objects' = IF ~confirm /\ ~Falsy(activeObjectId)
                THEN updateObject(objects, activeObjectId,
                       [obj \in Elements(objects) |-> Restore(obj, initialTransform)])
                ELSE objects
  /\ isGrabbing' = FALSE
  /\ transformMode' = "null"
  /\ activeAxes' = <<>>
  /\ UNCHANGED <<activeObjectId, initialTransform, edits, gestureStart>>
  /\ Rerender(FALSE)

----------------------------------------------------------------------------
(* handleMouseMove, App.js:168-265.  The handler reads the objects of its  *)
(* closure (viewObjects) and queues an update of the live state.           *)

Hundredths(n) == n \div 100

\* movementScale = 0.01 * (camera.position.z / 5), applied to a movement
\* given in pixels; the result is in hundredths
MovementScaled(m) == (m * camera[3]) \div RefDistance

TranslateDelta(axes, movementX, movementY) ==
  Vec3(IF Len(axes) = 0 \/ Includes(axes, "x") THEN MovementScaled(movementX) ELSE 0,
       IF Len(axes) = 0 \/ Includes(axes, "y") THEN MovementScaled(movementY) ELSE 0,
       IF Includes(axes, "z") THEN MovementScaled(movementX + movementY) ELSE 0)

\* rotationScale = 0.01: one pixel is one hundredth
RotationDelta(axes, movementX, movementY) ==
  IF Len(axes) = 0
  THEN Vec3(movementY, movementX, 0)
  ELSE Vec3(IF Includes(axes, "x") THEN movementX + movementY ELSE 0,
            IF Includes(axes, "y") THEN movementX + movementY ELSE 0,
            IF Includes(axes, "z") THEN movementX + movementY ELSE 0)

\* c * scaleFactor with scaleFactor = 1 + (movementX + movementY) * 0.01
TimesScaleFactor(c, movementX, movementY) ==
  Hundredths(c * (100 + movementX + movementY))

NewScale(scale, axes, movementX, movementY) ==
  IF Len(axes) = 0
  THEN Vec3(TimesScaleFactor(scale[1], movementX, movementY),
            TimesScaleFactor(scale[2], movementX, movementY),
            TimesScaleFactor(scale[3], movementX, movementY))
  ELSE Vec3(IF Includes(axes, "x")
              THEN TimesScaleFactor(scale[1], movementX, movementY) ELSE scale[1],
            IF Includes(axes, "y")
              THEN TimesScaleFactor(scale[2], movementX, movementY) ELSE scale[2],
            IF Includes(axes, "z")
              THEN TimesScaleFactor(scale[3], movementX, movementY) ELSE scale[3])

Add(u, v) == Vec3(u[1] + v[1], u[2] + v[2], u[3] + v[3])

\* the objects after handleMouseMove's update is applied
Moved(activeObject, movementX, movementY) ==
  CASE transformMode = "translate" ->
         updateObject(objects, activeObjectId, [obj \in Elements(objects) |->
           [obj EXCEPT !.position =
              Add(activeObject.position, TranslateDelta(activeAxes, movementX, movementY))]])
    [] transformMode = "rotate" ->
         updateObject(objects, activeObjectId, [obj \in Elements(objects) |->
           [obj EXCEPT !.rotation =
              Add(activeObject.rotation, RotationDelta(activeAxes, movementX, movementY))]])
    [] transformMode = "scale" ->
         updateObject(objects, activeObjectId, [obj \in Elements(objects) |->
           [obj EXCEPT !.scale =
              NewScale(activeObject.scale, activeAxes, movementX, movementY)]])
    [] OTHER -> objects

handleMouseMove(event) ==
  IF ~isGrabbing \/ Falsy(activeObjectId)
     \/ ~(\E i \in 1..Len(viewObjects) : viewObjects[i].id = activeObjectId)
  THEN UNCHANGED objects
  ELSE objects' = Moved(Find(viewObjects, activeObjectId),
                        event.movementX, -event.movementY)

\* A pointer-motion event: delivered to the attached mousemove listener.
\* The re-render it causes is the separate step Render.
MouseMove(m) ==
  /\ moveListener
  /\ edits < MaxEdits
  /\ edits' = edits + 1
  /\ handleMouseMove(m)
  /\ UNCHANGED gestureStart
  /\ UNCHANGED engine
  /\ UNCHANGED camera
  /\ NoRerender

\* The re-render that follows pointer motion: handleMouseMove is re-created
\* over the current objects and the pointer listener effect runs again.
Render ==
  /\ viewObjects # objects
  /\ UNCHANGED <<objects, engine, edits, camera, gestureStart>>
  /\ Rerender(isGrabbing)

\* A pointer-button release: every attached mouseup listener runs
\* endTransform(true) (App.js:410).
\* (mutant of MouseUp: the release cancels instead of committing)
MouseUpCancels ==
  /\ upListeners > 0
  /\ endTransform(FALSE)
  /\ UNCHANGED camera

MouseUp ==
  /\ upListeners > 0
  /\ endTransform(TRUE)
  /\ UNCHANGED camera

\* onClick of an object of the scene, App.js:432
Click(id) ==
  /\ id \in Ids(objects)
  /\ UNCHANGED <<objects, isGrabbing, transformMode, activeAxes, initialTransform, edits,
                  camera, gestureStart>>
  /\ IF ~isGrabbing /\ activeObjectId # id
     THEN activeObjectId' = id /\ Rerender(isGrabbing)
     ELSE UNCHANGED activeObjectId /\ NoRerender

----------------------------------------------------------------------------
(* handleKeyDown, App.js:313-394 *)

\* (mutant of ToggleAxis: an axis that is not in the set is added to it)
ToggleAxisAdds(prev, axis) ==
  IF Includes(prev, axis) THEN SelectSeq(prev, LAMBDA a : a # axis)
  ELSE Append(prev, axis)

\* setActiveAxes updater of a plain axis key, App.js:349-351
ToggleAxis(prev, axis) ==
  IF Includes(prev, axis) THEN SelectSeq(prev, LAMBDA a : a # axis) ELSE <<axis>>

\* the array a shifted axis key sets, App.js:347, 359, 371
ShiftAxes(axis) ==
  CASE axis = "x" -> <<"y", "z">>
    [] axis = "y" -> <<"x", "z">>
    [] axis = "z" -> <<"x", "y">>

\* (mutant of AxisKey: the isGrabbing guard is missing)
AxisKeyUnguarded(axis, isShiftPressed) ==
  /\ activeAxes' = IF isShiftPressed THEN ShiftAxes(axis)
                    ELSE ToggleAxis(activeAxes, axis)
  /\ UNCHANGED <<objects, activeObjectId, isGrabbing, transformMode,
                  initialTransform, edits, gestureStart>>
  /\ Rerender(isGrabbing)

AxisKey(axis, isShiftPressed) ==
  IF isGrabbing
  THEN /\ activeAxes' = IF isShiftPressed THEN ShiftAxes(axis)
                        ELSE ToggleAxis(activeAxes, axis)
       /\ UNCHANGED <<objects, activeObjectId, isGrabbing, transformMode,
                       initialTransform, edits, gestureStart>>
       /\ Rerender(isGrabbing)
  ELSE Ignored

\* (mutant of ModeKey: the isGrabbing guard is missing)
ModeKeyUnguarded(mode) == startTransform(mode)

ModeKey(mode) ==
  IF ~isGrabbing
  THEN startTransform(mode)
  ELSE Ignored

handleKeyDown(event) ==
  LET key == ToLowerCase(event.key) IN
  IF Falsy(activeObjectId)
  THEN Ignored
  ELSE CASE key = "delete" -> handleDeleteObject
         [] key = "d" -> IF event.ctrlKey THEN handleDuplicateObject ELSE Ignored
         [] key = "g" -> ModeKey("translate")
         [] key = "r" -> ModeKey("rotate")
         [] key = "s" -> ModeKey("scale")
         [] key \in {"x", "y", "z"} -> AxisKey(key, event.shiftKey)
         [] key = "escape" -> IF isGrabbing THEN endTransform(FALSE) ELSE Ignored
         [] key = "enter" -> IF isGrabbing THEN endTransform(TRUE) ELSE Ignored
         [] OTHER -> Ignored

\* A key press: delivered to the keydown listener, which is always attached
\* (App.js:396).
KeyDown(event) == handleKeyDown(event) /\ UNCHANGED camera

----------------------------------------------------------------------------

Next ==
  \/ \E event \in KeyEvents : KeyDown(event)
  \/ \E id \in ClickIds : Click(id)
  \/ \E m \in Motions : MouseMove(m)
  \/ MouseUp
  \/ Render

Spec == Init /\ [][Next]_vars

----------------------------------------------------------------------------
(* OrbitControls, App.js:437-444.  While enabled the controller lets the    *)
(* user rotate the camera about the target and zoom (dolly) it.  It writes *)
(* camera.position, which is no React state: nothing re-renders.           *)

\* the camera positions explored: the initial one, one rotated about the y
\* axis at the same distance from the target (3-4-5), one zoomed out
CameraPositions == {InitialCamera, <<3, 0, 4>>, <<0, 0, 10>>}

Orbit ==
  /\ ~isGrabbing                        \* enabled={!isGrabbing}
  /\ camera' \in CameraPositions \ {camera}
  /\ UNCHANGED <<objects, engine, edits, gestureStart>>
  /\ NoRerender

NextOrbit ==
  \/ Next
  \/ Orbit

SpecOrbit == Init /\ [][NextOrbit]_vars

----------------------------------------------------------------------------
(* Vocabulary of the claims *)

\* TransformMode = None / != None
Idle == transformMode = "null"
Active == transformMode # "null"

\* enabled={!isGrabbing} of OrbitControls, App.js:442
NavigationGateEnabled == ~isGrabbing

AxisSet(axes) == {axes[i] : i \in 1..Len(axes)}

ModeKeyEvents == {e \in KeyEvents : ToLowerCase(e.key) \in {"g", "r", "s"}}
PlainAxisEvents == {e \in KeyEvents : ToLowerCase(e.key) \in {"x", "y", "z"} /\ ~e.shiftKey}
ShiftAxisEvents == {e \in KeyEvents : ToLowerCase(e.key) \in {"x", "y", "z"} /\ e.shiftKey}
EscapeEvents == {e \in KeyEvents : e.key = "Escape"}
EnterEvents == {e \in KeyEvents : e.key = "Enter"}
DeleteEvents == {e \in KeyEvents : e.key = "Delete"}
UnknownKeyEvents ==
  {e \in KeyEvents : \/ ToLowerCase(e.key) = "a"
                      \/ (ToLowerCase(e.key) = "d" /\ ~e.ctrlKey)}
DuplicateEvents == {e \in KeyEvents : ToLowerCase(e.key) = "d" /\ e.ctrlKey}

\* the mode a mode key stands for (spec 6, keyboard surface)
ModeOfKey(k) ==
  CASE k \in {"g", "G"} -> "translate"
    [] k \in {"r", "R"} -> "rotate"
    [] k \in {"s", "S"} -> "scale"

OtherAxes(k) == {"x", "y", "z"} \ {k}

\* distance of the camera from the target of OrbitControls (whole for the
\* positions explored)
CameraDistance ==
  LET d == Vec3(camera[1] - OrbitTarget[1], camera[2] - OrbitTarget[2],
                camera[3] - OrbitTarget[3])
      sq == d[1] * d[1] + d[2] * d[2] + d[3] * d[3]
  IN  CHOOSE n \in 0..sq : n * n = sq

----------------------------------------------------------------------------
\* C1  Cancel: in every state with a gesture active (and an object selected;
\* C3 is about the others), pressing Escape returns the engine to Idle and
\* leaves the object that was selected when the gesture started with the
\* position, rotation and scale it had then.
C1_CancelRestoresStart ==
  (Active /\ activeObjectId # NULL) =>
    \A e \in EscapeEvents :
      ~ ENABLED (KeyDown(e) /\ ~ (Idle' /\ ~isGrabbing'
                                  /\ gestureStart.id \in Ids(objects')
                                  /\ PoseOf(objects', gestureStart.id) = gestureStart.pose))

\* C2  Commit: in every state with a gesture active, pressing Enter moves the
\* engine to Idle (mode None, axes empty) and changes no pose.
C2_CommitKeepsLivePose ==
  Active =>
    \A e \in EnterEvents :
      ~ ENABLED (KeyDown(e) /\ ~ (Idle' /\ ~isGrabbing' /\ activeAxes' = <<>>
                                  /\ objects' = objects))

\* C3  In every reachable state a gesture is active only if an object is
\* selected.
C3_ActiveOnlyWithSelection == Active => activeObjectId # NULL

\* C4  Delete with an object selected removes exactly that object and clears
\* the selection; with a gesture active it also forces the engine to Idle
\* (mode None, axes empty, Navigation Gate enabled).
C4_DeleteForcesIdle ==
  activeObjectId # NULL =>
    \A e \in DeleteEvents :
      /\ ENABLED KeyDown(e)
      /\ ~ ENABLED (KeyDown(e)
           /\ ~ (/\ objects' = SelectSeq(objects, LAMBDA obj : obj.id # activeObjectId)
                 /\ activeObjectId' = NULL
                 /\ (Active => Idle' /\ activeAxes' = <<>> /\ NavigationGateEnabled')))

\* C5  While a gesture is active no step makes another object the selection
\* (the selection stays, or becomes none).
C5_SelectionFixedWhileActive ==
  [][Active => activeObjectId' \in {activeObjectId, NULL}]_vars

\* C6  Gesture start: pressing G, R or S (either case) while Idle with an object
\* selected makes the engine Active with that key's mode and axes = {},
\* disables the Navigation Gate and captures a snapshot equal to the selected
\* object's live position, rotation and scale; no pose changes.
C6_GestureStart ==
  (Idle /\ activeObjectId # NULL) =>
    \A e \in ModeKeyEvents :
      /\ ENABLED KeyDown(e)
      /\ ~ ENABLED (KeyDown(e)
           /\ ~ (/\ transformMode' = ModeOfKey(e.key)
                 /\ activeAxes' = <<>>
                 /\ ~NavigationGateEnabled'
                 /\ initialTransform' = PoseOf(objects, activeObjectId)
                 /\ activeObjectId' = activeObjectId
                 /\ objects' = objects))

\* a second gesture has just started on an object whose committed scale is
\* not the initial one, and the snapshot holds that scale
C6_Witness ==
  /\ transformMode = "rotate" /\ isGrabbing /\ activeAxes = <<>>
  /\ activeObjectId = 1
  /\ edits = 1 /\ viewObjects = objects
  /\ PoseOf(objects, 1).scale # <<100, 100, 100>>
  /\ initialTransform = PoseOf(objects, 1)
  /\ gestureStart = [id |-> 1, pose |-> initialTransform]

\* C7  Pressing a mode key while a gesture is active changes nothing: mode,
\* axes, snapshot, selection and every pose stay as they are.
C7_ModeKeyIgnoredWhileActive ==
  Active =>
    \A e \in ModeKeyEvents :
      /\ ENABLED KeyDown(e)
      /\ ~ ENABLED (KeyDown(e) /\ ~ UNCHANGED <<objects, engine>>)

\* a translate gesture locked to two axes that has moved its object, where R
\* can be pressed and leaves every variable as it is
C7_Witness ==
  /\ transformMode = "translate" /\ activeAxes = <<"x", "z">>
  /\ activeObjectId = 1
  /\ PoseOf(objects, 1).position # initialTransform.position
  /\ ENABLED (KeyDown(KeyEvent("R", FALSE, FALSE)) /\ UNCHANGED vars)

\* C8  With nothing selected every key event is a no-op: mode, axes, snapshot,
\* selection and the Pose Store are unchanged (so an Idle engine stays Idle).
C8_KeysIgnoredWithoutSelection ==
  activeObjectId = NULL =>
    \A e \in KeyEvents :
      /\ ENABLED KeyDown(e)
      /\ ~ ENABLED (KeyDown(e) /\ ~ UNCHANGED <<objects, engine>>)

\* nothing is selected after a deletion, the engine is Idle, and G can be
\* pressed and leaves every variable as it is
C8_Witness ==
  /\ activeObjectId = NULL /\ Idle /\ Len(objects) < Len(InitialObjects)
  /\ ENABLED (KeyDown(KeyEvent("g", FALSE, FALSE)) /\ UNCHANGED vars)

\* C9  Plain axis key: while a gesture is active (and an object selected; C3 is
\* about the others), pressing X, Y or Z without shift clears the axis set if
\* it is exactly that axis and otherwise replaces it with that axis alone,
\* also from a two-axis set; mode and poses are unchanged.
C9_PlainAxisKey ==
  (Active /\ activeObjectId # NULL) =>
    \A e \in PlainAxisEvents :
      ~ ENABLED (KeyDown(e)
           /\ ~ (/\ AxisSet(activeAxes') =
                      IF AxisSet(activeAxes) = {ToLowerCase(e.key)}
                      THEN {} ELSE {ToLowerCase(e.key)}
                 /\ transformMode' = transformMode
                 /\ objects' = objects))

\* C10  Shift lock: while a gesture is active, pressing shift + an axis key
\* sets the axis set to the two other axes, whatever the prior set and the
\* mode.
C10_ShiftLock ==
  Active =>
    \A e \in ShiftAxisEvents :
      ~ ENABLED (KeyDown(e)
           /\ ~ (/\ AxisSet(activeAxes') = OtherAxes(ToLowerCase(e.key))
                 /\ transformMode' = transformMode))

\* C11  Axis toggle round trip: while a gesture is active with axes = {},
\* pressing a plain axis key a sets the axes to {a}, and pressing the same
\* plain key again in the state so reached (axes = {a}) sets them to {} again,
\* for every axis and every mode.
C11_AxisToggleRoundTrip ==
  Active =>
    \A e \in PlainAxisEvents :
      LET a == ToLowerCase(e.key) IN
      /\ activeAxes = <<>> =>
           /\ ENABLED KeyDown(e)
           /\ ~ ENABLED (KeyDown(e) /\ activeAxes' # <<a>>)
      /\ activeAxes = <<a>> =>
           /\ ENABLED KeyDown(e)
           /\ ~ ENABLED (KeyDown(e) /\ activeAxes' # <<>>)

\* C12  Pointer release: in every state with a gesture active a pointer-button
\* release is handled and moves the engine to Idle with the Pose Store
\* unchanged and the Navigation Gate enabled.
C12_PointerRelease ==
  Active =>
    /\ ENABLED MouseUp
    /\ ~ ENABLED (MouseUp /\ ~ (/\ Idle' /\ activeAxes' = <<>>
                                /\ objects' = objects
                                /\ NavigationGateEnabled'))

\* a gesture that has moved its object away from the snapshot, where the
\* release ends the gesture and keeps the moved pose
C12_Witness ==
  /\ Active /\ activeObjectId = 1
  /\ PoseOf(objects, 1) # initialTransform
  /\ ENABLED (MouseUp /\ Idle' /\ PoseOf(objects', 1) = PoseOf(objects, 1))

\* C13  Navigation Gate: in every reachable state the camera controller is
\* disabled exactly when a gesture is active and enabled exactly when the
\* engine is Idle.
C13_NavigationGate ==
  /\ Active <=> ~NavigationGateEnabled
  /\ Idle <=> NavigationGateEnabled

\* a gesture has started and ended again (the object kept its dragged pose):
\* the gate is enabled again
C13_Witness ==
  /\ Idle /\ NavigationGateEnabled
  /\ gestureStart.id = 1 /\ 1 \in Ids(objects)
  /\ PoseOf(objects, 1) # gestureStart.pose

\* C14  Translate mapping: in Translate mode, with the handler's view of the
\* Pose Store up to date, a motion event (dx, dy, dy the inverted vertical
\* motion) changes the selected object's position by dx x distanceScale on x
\* iff the axes are empty or contain X, by dy x distanceScale on y iff they
\* are empty or contain Y, by (dx + dy) x distanceScale on z iff they contain
\* Z, where distanceScale = 0.01 x (camera distance from its target / 5).
C14_TranslateMapping ==
  (isGrabbing /\ transformMode = "translate" /\ activeObjectId \in Ids(objects)
     /\ viewObjects = objects) =>
    \A m \in Motions :
      LET dx == m.movementX
          dy == -m.movementY
          A == AxisSet(activeAxes)
          old == PoseOf(objects, activeObjectId).position
          \* n x distanceScale, in hundredths
          DistanceScaled(n) == (n * CameraDistance) \div 5
      IN ~ ENABLED (MouseMove(m)
            /\ PoseOf(objects', activeObjectId).position #
                 Vec3(old[1] + (IF A = {} \/ "x" \in A THEN DistanceScaled(dx) ELSE 0),
                      old[2] + (IF A = {} \/ "y" \in A THEN DistanceScaled(dy) ELSE 0),
                      old[3] + (IF "z" \in A THEN DistanceScaled(dx + dy) ELSE 0)))

\* C15  Rotate mapping: in Rotate mode a motion event (dx, dy) adds to the
\* selected object's current live rotation dy x 0.01 on x and dx x 0.01 on y
\* (z unchanged) if the axes are empty, and otherwise (dx + dy) x 0.01 on
\* each component whose axis is in the set (the others unchanged).
C15_RotateMapping ==
  (isGrabbing /\ transformMode = "rotate" /\ activeObjectId \in Ids(objects)) =>
    \A m \in Motions :
      LET dx == m.movementX
          dy == -m.movementY
          A == AxisSet(activeAxes)
          live == PoseOf(objects, activeObjectId).rotation
      IN ~ ENABLED (MouseMove(m)
            /\ PoseOf(objects', activeObjectId).rotation #
                 (IF A = {}
                  THEN Vec3(live[1] + dy, live[2] + dx, live[3])
                  ELSE Vec3(live[1] + (IF "x" \in A THEN dx + dy ELSE 0),
                            live[2] + (IF "y" \in A THEN dx + dy ELSE 0),
                            live[3] + (IF "z" \in A THEN dx + dy ELSE 0))))

\* C16  Scale mapping: in Scale mode a motion event (dx, dy) multiplies by
\* f = 1 + (dx + dy) x 0.01 all three components of the selected object's
\* current live scale if the axes are empty, and otherwise exactly the
\* components named in the set; successive events compound.
C16_ScaleMapping ==
  (isGrabbing /\ transformMode = "scale" /\ activeObjectId \in Ids(objects)) =>
    \A m \in Motions :
      LET dx == m.movementX
          dy == -m.movementY
          A == AxisSet(activeAxes)
          live == PoseOf(objects, activeObjectId).scale
          TimesF(c) == (c * (100 + dx + dy)) \div 100
      IN ~ ENABLED (MouseMove(m)
            /\ PoseOf(objects', activeObjectId).scale #
                 Vec3(IF A = {} \/ "x" \in A THEN TimesF(live[1]) ELSE live[1],
                      IF A = {} \/ "y" \in A THEN TimesF(live[2]) ELSE live[2],
                      IF A = {} \/ "z" \in A THEN TimesF(live[3]) ELSE live[3]))

\* C17  Duplicate: with an object selected Ctrl+D appends exactly one object
\* whose id is the greatest existing id + 1, whose position is the source's
\* with x increased by 1, and whose other fields equal the source's; every
\* existing object is unchanged and the new object becomes the selection.
C17_Duplicate ==
  activeObjectId \in Ids(objects) =>
    \A e \in DuplicateEvents :
      LET src == Find(objects, activeObjectId)
          new == [src EXCEPT !.id = MathMax(Ids(objects)) + 1,
                             !.position = Vec3(src.position[1] + 100,
                                               src.position[2], src.position[3])]
      IN ~ ENABLED (KeyDown(e)
            /\ ~ (/\ objects' = Append(objects, new)
                  /\ activeObjectId' = new.id))

\* C18  Object ids are unique: in every reachable state no two objects of the
\* Pose Store have the same id, and no step changes the id of an object: the
\* ids, in order, stay as they are but for one id appended or removed.
C18_UniqueIds ==
  /\ [](\A i, j \in 1..Len(objects) : objects[i].id = objects[j].id => i = j)
  /\ [][LET ids == [i \in 1..Len(objects) |-> objects[i].id]
            ids2 == [i \in 1..Len(objects') |-> objects'[i].id]
        IN \/ ids2 = ids
           \/ \E n \in 1..10 : n \notin Ids(objects) /\ ids2 = Append(ids, n)
           \/ \E n \in Ids(objects) : ids2 = SelectSeq(ids, LAMBDA k : k # n)]_vars

\* object 1 was duplicated, a gesture changed the duplicate's position and
\* object 1 was deleted: five objects with five ids
C18_Witness ==
  /\ Ids(objects) = {2, 3, 4, 5, 6}
  /\ Find(objects, 6).position # <<100, 0, 0>>

\* C19  Motion is cumulative: in a Translate gesture every pointer-motion
\* event adds its delta to the position the preceding event left (the live
\* position), whether or not the handler's view of the Pose Store was
\* refreshed in between, so no delta is lost or applied twice.
C19_MotionCumulative ==
  (isGrabbing /\ transformMode = "translate" /\ activeObjectId \in Ids(objects)) =>
    \A m \in Motions :
      ~ ENABLED (MouseMove(m)
           /\ PoseOf(objects', activeObjectId).position #
                Add(PoseOf(objects, activeObjectId).position,
                    TranslateDelta(activeAxes, m.movementX, -m.movementY)))

\* C20  Frame of a gesture: while a gesture is active no step changes the
\* position, rotation or scale of an object other than the one selected when
\* the gesture started, and a pointer-motion event changes only the field of
\* the active mode of that object, leaving its other two fields, the
\* selection, the mode and the axes unchanged.
C20_GestureFrame ==
  [][Active =>
       /\ \A id \in Ids(objects) \cap Ids(objects') :
            id # gestureStart.id => PoseOf(objects', id) = PoseOf(objects, id)
       /\ (\E m \in Motions : MouseMove(m)) =>
            /\ UNCHANGED <<activeObjectId, transformMode, activeAxes>>
            /\ \A id \in Ids(objects) :
                 LET old == PoseOf(objects, id)
                     new == PoseOf(objects', id)
                 IN /\ transformMode # "translate" => new.position = old.position
                    /\ transformMode # "rotate" => new.rotation = old.rotation
                    /\ transformMode # "scale" => new.scale = old.scale]_vars

\* C21  Listener subscription: in every Idle state no pointer-motion and no
\* pointer-release listener of the engine is attached to the window, and in
\* every Active state at most one of each kind is.
C21_ListenersDetached ==
  /\ Idle => ~moveListener /\ upListeners = 0
  /\ Active => upListeners <= 1

\* C22  Missing reference: when a gesture is active and the object it started
\* on is no longer in the Pose Store, every key or pointer-motion event that
\* is handled aborts the gesture: the engine is Idle afterwards and no pose
\* has changed.
C22_MissingReferenceAborts ==
  (Active /\ gestureStart.id \notin Ids(objects)) =>
    /\ \A e \in KeyEvents :
         ~ ENABLED (KeyDown(e) /\ ~ (Idle' /\ ~isGrabbing' /\ objects' = objects))
    /\ \A m \in Motions :
         ~ ENABLED (MouseMove(m) /\ ~ (Idle' /\ ~isGrabbing' /\ objects' = objects))

\* C23  Events without a transition: while Idle with an object selected an
\* axis key (plain or shifted), Enter, Escape, an unknown key, a
\* pointer-motion event and a pointer release leave mode, axes, selection,
\* snapshot and every pose unchanged; so does an unknown key while a gesture
\* is active.
C23_NoTransitionNoChange ==
  /\ (Idle /\ activeObjectId # NULL) =>
       /\ \A e \in PlainAxisEvents \cup ShiftAxisEvents \cup EnterEvents
                    \cup EscapeEvents \cup UnknownKeyEvents :
            /\ ENABLED KeyDown(e)
            /\ ~ ENABLED (KeyDown(e) /\ ~ UNCHANGED <<objects, engine>>)
       /\ \A m \in Motions :
            ~ ENABLED (MouseMove(m) /\ ~ UNCHANGED <<objects, engine>>)
       /\ ~ ENABLED (MouseUp /\ ~ UNCHANGED <<objects, engine>>)
  /\ Active =>
       \A e \in UnknownKeyEvents :
         /\ ENABLED KeyDown(e)
         /\ ~ ENABLED (KeyDown(e) /\ ~ UNCHANGED <<objects, engine>>)

\* Idle after a gesture on object 1, which is still selected: a release
\* listener of that gesture is still attached and a release changes nothing,
\* nor do the x key and Escape
C23_Witness ==
  /\ Idle /\ activeObjectId = 1 /\ gestureStart.id = 1
  /\ upListeners > 0
  /\ ENABLED (MouseUp /\ UNCHANGED vars)
  /\ ENABLED (KeyDown(KeyEvent("x", FALSE, FALSE)) /\ UNCHANGED vars)
  /\ ENABLED (KeyDown(KeyEvent("Escape", FALSE, FALSE)) /\ UNCHANGED vars)

\* C24  Axis set bounds: in every reachable state the axes are at most two
\* different elements of {x, y, z}, and a step that makes the axes a
\* two-element set from a smaller one is a shift + axis key press (no plain
\* axis key press does it).
C24_AxisSetBounds ==
  /\ [](/\ Len(activeAxes) <= 2
        /\ AxisSet(activeAxes) \subseteq {"x", "y", "z"}
        /\ Cardinality(AxisSet(activeAxes)) = Len(activeAxes))
  /\ [][(Len(activeAxes') = 2 /\ Len(activeAxes) < 2) =>
          /\ \E e \in ShiftAxisEvents : KeyDown(e)
          /\ ~ \E e \in PlainAxisEvents : KeyDown(e)]_vars

\* a gesture locked to two axes by shift + y, where the plain x key leaves
\* one axis
C24_Witness ==
  /\ transformMode = "rotate" /\ activeAxes = <<"x", "z">>
  /\ activeObjectId = 1
  /\ ENABLED (KeyDown(KeyEvent("x", FALSE, FALSE)) /\ activeAxes' = <<"z">>)

\* C25  The gesture flags agree: in every reachable state isGrabbing is true
\* exactly when transformMode is translate, rotate or scale and false exactly
\* when it is null, and the axes are empty whenever isGrabbing is false.
C25_FlagsAgree ==
  /\ isGrabbing <=> transformMode \in {"translate", "rotate", "scale"}
  /\ ~isGrabbing <=> transformMode = "null"
  /\ ~isGrabbing => activeAxes = <<>>

\* a gesture with the axes set to x has scaled object 1 on x only and has
\* ended: the flags are reset and the axes are empty
C25_Witness ==
  /\ ~isGrabbing /\ transformMode = "null" /\ activeAxes = <<>>
  /\ gestureStart.id = 1 /\ 1 \in Ids(objects)
  /\ gestureStart.pose.scale = <<100, 100, 100>>
  /\ PoseOf(objects, 1).scale = <<400, 100, 100>>

\* C26  No dangling selection: in every reachable state the selection is none
\* or the id of an object of the Pose Store, and a step that makes a
\* selection none is a Delete key press.
C26_NoDanglingSelection ==
  /\ [](activeObjectId = NULL \/ activeObjectId \in Ids(objects))
  /\ [][(activeObjectId # NULL /\ activeObjectId' = NULL) =>
          \E e \in DeleteEvents : KeyDown(e)]_vars

\* object 1 was duplicated and deleted, and its duplicate is the selection
C26_Witness ==
  /\ activeObjectId = 6
  /\ Ids(objects) = {2, 3, 4, 5, 6}

====
